---------------------------- MODULE Spec2Model ----------------------------
(***************************************************************************)
(* Key manager and mnemonic codec of infrastructure/keymanager.            *)
(*                                                                         *)
(* Three specifications share the module:                                  *)
(*   Spec       the KeyManager (keymanager.rs): construction, derive_key,  *)
(*              next_key, to_file, from_file;                              *)
(*   SpecCodec  the mnemonic codec (mnemonic.rs, common.rs): from_bytes,   *)
(*              to_bytes, to_bytes_with_language, MnemonicLanguage::from   *)
(*              and the bit/byte functions on inputs drawn in Init;        *)
(*   SpecManager  the MnemonicManager (mnemonicmanager.rs): new, from and  *)
(*              a sequence of find calls.                                  *)
(***************************************************************************)
EXTENDS Integers, Sequences, FiniteSets, TLC

VARIABLES
    km,       \* the KeyManager value: master_key, branch_seed, primary_key_index
    made,     \* the KeyManager value as it was constructed (history)
    nextCalls,\* number of next_key calls since construction (history)
    nextOk,   \* number of successful next_key calls since construction (history)
    returned, \* the key_index values next_key has returned (history)
    file,     \* content of the backup file, or NoFile
    invalid,  \* the hash inputs whose digest SecretKey::from_bytes rejects
    res,      \* what the last KeyManager operation returned
    seen,     \* a derive_key call made before any next_key call (history)
    input,    \* codec: the caller's input (bytes and a language, words, bits,
              \* a value and a width, or the length of a long byte sequence)
    words,    \* codec: the intermediate result in hand (a mnemonic sequence, its
              \* length, or a bit sequence), or NoWords
    out,      \* codec: what the last codec function returned
    mm,       \* the MnemonicManager value: language
    mmMade,   \* the MnemonicManager value as it was constructed (history)
    lastFind  \* the last find call: its word, the language before it, its result

kmVars == <<km, made, nextCalls, nextOk, returned, file, invalid, res, seen>>
codecVars == <<input, words, out>>
mgrVars == <<mm, mmMade, lastFind>>
vars == <<km, made, nextCalls, nextOk, returned, file, invalid, res, seen,
          input, words, out, mm, mmMade, lastFind>>

-----------------------------------------------------------------------------
(* Results of fallible functions: Ok(v), Err(e), or a panic (abort).       *)

Ok(v) == [kind |-> "Ok", value |-> v]
Err(e) == [kind |-> "Err", error |-> e]
Panic == [kind |-> "Panic"]

IsOk(r) == r.kind = "Ok"
IsErr(r, e) == r.kind = "Err" /\ r.error = e

NoWords == [kind |-> "None"]
NoOutput == [op |-> "none"]

-----------------------------------------------------------------------------
(* common.rs: the bit/byte codec.  A bit is a BOOLEAN, a byte is 0..255.   *)

Reverse(s) == [i \in 1..Len(s) |-> s[Len(s) + 1 - i]]

RECURSIVE uint_to_bits_loop(_, _, _)
uint_to_bits_loop(v, remaining, bits) ==
    IF remaining = 0 THEN bits
    ELSE uint_to_bits_loop(v \div 2, remaining - 1, Append(bits, v % 2 > 0))

\* Mutant: the bits are left least significant bit first.
uint_to_bits_unreversed(value, bit_count) == uint_to_bits_loop(value, bit_count, <<>>)

uint_to_bits(value, bit_count) == Reverse(uint_to_bits_loop(value, bit_count, <<>>))

RECURSIVE pow2(_)
pow2(e) == IF e = 0 THEN 1 ELSE 2 * pow2(e - 1)

BoolAsUsize(b) == IF b THEN 1 ELSE 0

\* A usize has 64 bits.  (2 as usize).pow(exp) overflows from exp = 64 on:
\* a build with overflow checks aborts there, a build without them goes on
\* with the wrapped power, which is 0.
usize_BITS == 64

pow_overflows(exp) == exp >= usize_BITS

wrapping_pow2(exp) == IF pow_overflows(exp) THEN 0 ELSE pow2(exp)

\* The product with a 0 bit is 0 without the power being written out; the
\* sum of powers of different exponents below 64 does not overflow.
RECURSIVE bits_to_uint_loop(_, _, _)
bits_to_uint_loop(bits, i, value) ==
    IF i > Len(bits) THEN value
    ELSE bits_to_uint_loop(bits, i + 1,
            value + (IF BoolAsUsize(bits[i]) = 0 THEN 0
                     ELSE BoolAsUsize(bits[i]) * wrapping_pow2(Len(bits) - i)))

\* The value bits_to_uint returns when it does not abort.
bits_to_uint(bits) == bits_to_uint_loop(bits, 1, 0)

\* bits_to_uint aborts: the power of the first bit is computed whatever
\* the bit is.
bits_to_uint_aborts(bits, overflow_checks) ==
    /\ overflow_checks
    /\ \E i \in 1..Len(bits) : pow_overflows(Len(bits) - i)

RECURSIVE bytes_to_bits_loop(_, _, _)
bytes_to_bits_loop(bytes, i, bits) ==
    IF i > Len(bytes) THEN bits
    ELSE bytes_to_bits_loop(bytes, i + 1, bits \o uint_to_bits(bytes[i], 8))

bytes_to_bits(bytes) == bytes_to_bits_loop(bytes, 1, <<>>)

AsU8(v) == v % 256

RECURSIVE bits_to_bytes_loop(_, _, _)
bits_to_bytes_loop(bits, i, bytes) ==
    IF i >= Len(bits) \div 8 THEN bytes
    ELSE bits_to_bytes_loop(bits, i + 1,
            Append(bytes, AsU8(bits_to_uint(SubSeq(bits, i * 8 + 1, i * 8 + 8)))))

bits_to_bytes(bits) == bits_to_bytes_loop(bits, 0, <<>>)

-----------------------------------------------------------------------------
(* The wordlist registry.  mnemonic_wordlists.rs is not part of the        *)
(* sources at hand; the lists follow the specification: one list per       *)
(* language, 2048 unique words, sorted ascending, some words present in    *)
(* more than one list.  A word is a natural number, its rank in the        *)
(* lexicographic order of all words.                                       *)

MNEMONIC_LANGUAGES ==
    << "ChineseSimplified", "ChineseTraditional", "English", "French",
       "Italian", "Japanese", "Korean", "Spanish" >>

Languages == {MNEMONIC_LANGUAGES[i] : i \in 1..Len(MNEMONIC_LANGUAGES)}

WordlistLen == 2048

\* Each list is an arithmetic progression: the word at a 0-based index is
\* Stride * index + First.  ChineseSimplified and ChineseTraditional share
\* the words 12m+1, English and French the words 12m+2, at different
\* indices except for index 0; 0 and every number above 24576 are words
\* of no list.
Stride(language) ==
    CASE language = "ChineseSimplified"  -> 6
      [] language = "ChineseTraditional" -> 4
      [] language = "English"            -> 6
      [] language = "French"             -> 4
      [] language = "Italian"            -> 12
      [] language = "Japanese"           -> 12
      [] language = "Korean"             -> 12
      [] language = "Spanish"            -> 12

First(language) ==
    CASE language = "ChineseSimplified"  -> 1
      [] language = "ChineseTraditional" -> 1
      [] language = "English"            -> 2
      [] language = "French"             -> 2
      [] language = "Italian"            -> 3
      [] language = "Japanese"           -> 4
      [] language = "Korean"             -> 11
      [] language = "Spanish"            -> 12

WordAt(language, index) == Stride(language) * index + First(language)

\* slice::binary_search over the sorted list: Ok(index of the word), or
\* Err(index where the word would be inserted).
RECURSIVE binary_search(_, _, _, _)
binary_search(language, word, lo, hi) ==
    IF lo >= hi THEN Err(lo)
    ELSE LET mid == lo + (hi - lo) \div 2
         IN  IF WordAt(language, mid) = word THEN Ok(mid)
             ELSE IF WordAt(language, mid) < word
                  THEN binary_search(language, word, mid + 1, hi)
                  ELSE binary_search(language, word, lo, mid)

-----------------------------------------------------------------------------
(* mnemonic.rs: the mnemonic codec.                                        *)

find_mnemonic_index_from_word(word, language) ==
    LET search_result == binary_search(language, word, 0, WordlistLen)
    IN  IF IsOk(search_result) THEN Ok(search_result.value)
        ELSE Err("WordNotFound")

find_mnemonic_word_from_index(index, language) ==
    IF index < WordlistLen THEN Ok(WordAt(language, index))
    ELSE Err("IndexOutOfBounds")

RECURSIVE MnemonicLanguage_from_loop(_, _)
MnemonicLanguage_from_loop(mnemonic_word, i) ==
    IF i > Len(MNEMONIC_LANGUAGES) THEN Err("UnknownLanguage")
    ELSE IF IsOk(find_mnemonic_index_from_word(mnemonic_word, MNEMONIC_LANGUAGES[i]))
         THEN Ok(MNEMONIC_LANGUAGES[i])
         ELSE MnemonicLanguage_from_loop(mnemonic_word, i + 1)

\* Mutant: the languages are tried from the last to the first.
RECURSIVE MnemonicLanguage_from_loop_backwards(_, _)
MnemonicLanguage_from_loop_backwards(mnemonic_word, i) ==
    IF i < 1 THEN Err("UnknownLanguage")
    ELSE IF IsOk(find_mnemonic_index_from_word(mnemonic_word, MNEMONIC_LANGUAGES[i]))
         THEN Ok(MNEMONIC_LANGUAGES[i])
         ELSE MnemonicLanguage_from_loop_backwards(mnemonic_word, i - 1)

MnemonicLanguage_from_backwards(mnemonic_word) ==
    MnemonicLanguage_from_loop_backwards(mnemonic_word, Len(MNEMONIC_LANGUAGES))

MnemonicLanguage_from(mnemonic_word) == MnemonicLanguage_from_loop(mnemonic_word, 1)

group_bit_count == 11

\* f32 arithmetic.  An f32 has a 24-bit significand and rounds to the
\* nearest representable value, ties to the even significand.  The values
\* met here are non-negative and far from the exponent limits; a value is
\* the fraction num / den with den a power of two.
F32_SIGNIFICAND_BITS == 24

RoundHalfEven(num, den) ==
    LET q == num \div den
        r == num % den
    IN  IF 2 * r < den THEN q
        ELSE IF 2 * r > den THEN q + 1
        ELSE IF q % 2 = 0 THEN q ELSE q + 1

RECURSIVE BitLength(_)
BitLength(n) == IF n = 0 THEN 0 ELSE 1 + BitLength(n \div 2)

\* The number of doublings that bring num / den into the top binade of
\* the significand, [2^23, 2^24).
RECURSIVE f32_shift(_, _)
f32_shift(num, den) ==
    IF 2 * num < den * pow2(F32_SIGNIFICAND_BITS)
    THEN 1 + f32_shift(2 * num, den)
    ELSE 0

\* The nearest f32 to the fraction num / den.
f32_round(num, den) ==
    LET whole == num \div den
    IN  IF num = 0 THEN [num |-> 0, den |-> 1]
        ELSE IF whole >= pow2(F32_SIGNIFICAND_BITS)
        THEN \* the unit in the last place is 2^excess
             LET ulp == pow2(BitLength(whole) - F32_SIGNIFICAND_BITS)
             IN  [num |-> RoundHalfEven(num, den * ulp) * ulp, den |-> 1]
        ELSE \* the unit in the last place is 2^-shift
             LET shift == f32_shift(num, den)
             IN  [num |-> RoundHalfEven(num * pow2(shift), den), den |-> pow2(shift)]

\* `as f32` of a usize
usize_as_f32(n) == f32_round(n, 1)

\* a / b for f32 values that are whole numbers
f32_div(a, b) == f32_round(a.num \div a.den, b.num \div b.den)

\* f32::ceil
f32_ceil(x) == [num |-> (x.num + x.den - 1) \div x.den, den |-> 1]

\* a * b for f32 values that are whole numbers
f32_mul(a, b) == f32_round((a.num \div a.den) * (b.num \div b.den), 1)

\* `as usize` of a non-negative f32: the fraction is dropped
f32_as_usize(x) == x.num \div x.den

\* ((bits.len() as f32 / group_bit_count as f32).ceil()
\*      * group_bit_count as f32) as usize
padded_size(len) ==
    f32_as_usize(f32_mul(f32_ceil(f32_div(usize_as_f32(len),
                                          usize_as_f32(group_bit_count))),
                         usize_as_f32(group_bit_count)))

\* Vec::resize(new_len, false)
Resize(bits, new_len) ==
    [i \in 1..new_len |-> IF i <= Len(bits) THEN bits[i] ELSE FALSE]

RECURSIVE from_bytes_loop(_, _, _, _)
from_bytes_loop(bits, language, i, mnemonic_sequence) ==
    IF i >= Len(bits) \div group_bit_count THEN Ok(mnemonic_sequence)
    ELSE LET start_index == i * group_bit_count
             stop_index == start_index + group_bit_count
             sub_v == SubSeq(bits, start_index + 1, stop_index)
             word_index == bits_to_uint(sub_v)
             found == find_mnemonic_word_from_index(word_index, language)
         IN  IF IsOk(found)
             THEN from_bytes_loop(bits, language, i + 1,
                                  Append(mnemonic_sequence, found.value))
             ELSE found

from_bytes(bytes, language) ==
    LET bits == bytes_to_bits(bytes)
    IN  from_bytes_loop(Resize(bits, padded_size(Len(bits))), language, 0, <<>>)

\* The number of words from_bytes returns for byte_count bytes: bytes_to_bits
\* gives 8 bits per byte, resize sets the length to padded_size, the loop
\* runs bits.len() / group_bit_count times and pushes one word each time
\* (an 11-bit index is below the lists' length).
from_bytes_len(byte_count) == padded_size(8 * byte_count) \div group_bit_count

\* The number of bytes to_bytes_with_language returns for word_count words
\* of the language: 11 bits per word, bits_to_bytes keeps the complete
\* groups of 8.
to_bytes_with_language_len(word_count) == (word_count * group_bit_count) \div 8

\* Mutant: a word that is not found is skipped.
RECURSIVE to_bytes_with_language_loop_skips(_, _, _, _)
to_bytes_with_language_loop_skips(mnemonic_seq, language, i, bits) ==
    IF i > Len(mnemonic_seq) THEN Ok(bits_to_bytes(bits))
    ELSE LET found == find_mnemonic_index_from_word(mnemonic_seq[i], language)
         IN  to_bytes_with_language_loop_skips(mnemonic_seq, language, i + 1,
                IF IsOk(found) THEN bits \o uint_to_bits(found.value, group_bit_count)
                ELSE bits)

RECURSIVE to_bytes_with_language_loop(_, _, _, _)
to_bytes_with_language_loop(mnemonic_seq, language, i, bits) ==
    IF i > Len(mnemonic_seq) THEN Ok(bits_to_bytes(bits))
    ELSE LET found == find_mnemonic_index_from_word(mnemonic_seq[i], language)
         IN  IF IsOk(found)
             THEN to_bytes_with_language_loop(mnemonic_seq, language, i + 1,
                        bits \o uint_to_bits(found.value, group_bit_count))
             ELSE found

to_bytes_with_language(mnemonic_seq, language) ==
    to_bytes_with_language_loop(mnemonic_seq, language, 1, <<>>)

\* Mutant: the language is detected from the last word.
to_bytes_detects_last(mnemonic_seq) ==
    IF Len(mnemonic_seq) = 0 THEN Panic
    ELSE LET language == MnemonicLanguage_from(mnemonic_seq[Len(mnemonic_seq)])
         IN  IF IsOk(language)
             THEN to_bytes_with_language(mnemonic_seq, language.value)
             ELSE language

\* Mutant: every sequence is decoded with the first language.
to_bytes_in_first_language(mnemonic_seq) ==
    IF Len(mnemonic_seq) = 0 THEN Panic
    ELSE to_bytes_with_language(mnemonic_seq, MNEMONIC_LANGUAGES[1])

\* mnemonic_seq[0] panics on an empty sequence.
to_bytes(mnemonic_seq) ==
    IF Len(mnemonic_seq) = 0 THEN Panic
    ELSE LET language == MnemonicLanguage_from(mnemonic_seq[1])
         IN  IF IsOk(language)
             THEN to_bytes_with_language(mnemonic_seq, language.value)
             ELSE language

-----------------------------------------------------------------------------
(* mnemonicmanager.rs: the MnemonicManager.  It has its own copy of the    *)
(* language list and of the word search.                                   *)

None == [some |-> FALSE]
Some(v) == [some |-> TRUE, value |-> v]

MNEMONIC_LANGUAGE ==
    <<"ChineseSimplified", "ChineseTraditional", "English", "French",
      "Italian", "Japanese", "Korean", "Spanish">>

find_mnemonic_word_index(word, language) ==
    LET search_result == binary_search(language, word, 0, WordlistLen)
    IN  IF IsOk(search_result) THEN Ok(search_result.value)
        ELSE Err("WordNotFound")

RECURSIVE find_language_of_mnemonic_word_loop(_, _)
find_language_of_mnemonic_word_loop(word, i) ==
    IF i > Len(MNEMONIC_LANGUAGE) THEN Err("UnknownLanguage")
    ELSE IF IsOk(find_mnemonic_word_index(word, MNEMONIC_LANGUAGE[i]))
         THEN Ok(MNEMONIC_LANGUAGE[i])
         ELSE find_language_of_mnemonic_word_loop(word, i + 1)

find_language_of_mnemonic_word(word) == find_language_of_mnemonic_word_loop(word, 1)

MnemonicManager_new == [language |-> None]

MnemonicManager_from(language) == [language |-> Some(language)]

\* Returns the manager after the call and the call's result.
set_language_from_word(self, word) ==
    LET detected == find_language_of_mnemonic_word(word)
    IN  IF IsOk(detected)
        THEN [self |-> [self EXCEPT !.language = Some(detected.value)],
              result |-> detected]
        ELSE [self |-> self, result |-> detected]

\* The lookup at the end of find.
find_in_language(self, word) ==
    IF self.language.some
    THEN find_mnemonic_word_index(word, self.language.value)
    ELSE Err("UnknownLanguage")

\* Mutant: the language is detected again at every call.
find_detects_again(self, word) ==
    LET set == set_language_from_word(self, word)
    IN  IF ~IsOk(set.result) THEN [self |-> set.self, result |-> set.result]
        ELSE [self |-> set.self, result |-> find_in_language(set.self, word)]

\* Returns the manager after the call and the call's result.
find(self, word) ==
    IF ~self.language.some
    THEN LET set == set_language_from_word(self, word)
         IN  IF ~IsOk(set.result) THEN [self |-> set.self, result |-> set.result]
             ELSE [self |-> set.self, result |-> find_in_language(set.self, word)]
    ELSE [self |-> self, result |-> find_in_language(self, word)]

-----------------------------------------------------------------------------
(* keymanager.rs: the key manager.  A string is a sequence of characters,  *)
(* a SecretKey is the sequence of its KeyLen bytes.  The crypto crate      *)
(* (SecretKey::to_hex, SecretKey::from_bytes, its serde encoding) is not   *)
(* part of the sources at hand and follows the specification.              *)

KeyLen == 32

HexDigits == <<"0", "1", "2", "3", "4", "5", "6", "7",
               "8", "9", "a", "b", "c", "d", "e", "f">>

DecDigits == <<"0", "1", "2", "3", "4", "5", "6", "7", "8", "9">>

\* SecretKey::to_hex: two lower-case hex digits per byte.
to_hex(key) ==
    [j \in 1..2 * Len(key) |->
        IF j % 2 = 1 THEN HexDigits[(key[(j + 1) \div 2] \div 16) + 1]
        ELSE HexDigits[(key[j \div 2] % 16) + 1]]

\* usize::to_string: the decimal digits, no leading zero.
RECURSIVE to_string(_)
to_string(n) ==
    IF n < 10 THEN <<DecDigits[n + 1]>>
    ELSE to_string(n \div 10) \o <<DecDigits[(n % 10) + 1]>>

\* sha256 is a collision-free function of its input: the digest stands for
\* the input it was computed from.
sha256(input_vec) == [sha256 |-> input_vec]

\* SecretKey::from_bytes on a digest: the scalar with these bytes, or a
\* ByteArrayError for the digests that are no valid scalar encoding.
SecretKey_from_bytes(digest, rejected) ==
    IF digest.sha256 \in rejected THEN Err("ByteArrayError") ELSE Ok(digest)

\* Mutant: the index is left out of the hashed string.
Concatenated_without_index(master_key, key_index) == to_hex(master_key)

Concatenated(master_key, key_index) == to_hex(master_key) \o to_string(key_index)

\* Mutant: the manager's counter is hashed instead of the requested index.
derive_key_of_counter(self, key_index, rejected) ==
    LET concatenated == Concatenated(self.master_key, self.primary_key_index)
        k == SecretKey_from_bytes(sha256(concatenated), rejected)
    IN  IF IsOk(k) THEN Ok([k |-> k.value, key_index |-> key_index])
        ELSE k

\* Mutant: the branch seed is hashed between the master key and the index.
derive_key_with_branch_seed(self, key_index, rejected) ==
    LET concatenated == to_hex(self.master_key) \o self.branch_seed \o to_string(key_index)
        k == SecretKey_from_bytes(sha256(concatenated), rejected)
    IN  IF IsOk(k) THEN Ok([k |-> k.value, key_index |-> key_index])
        ELSE k

derive_key(self, key_index, rejected) ==
    LET concatenated == Concatenated(self.master_key, key_index)
        k == SecretKey_from_bytes(sha256(concatenated), rejected)
    IN  IF IsOk(k) THEN Ok([k |-> k.value, key_index |-> key_index])
        ELSE k

\* Mutant: the key is derived before the counter is incremented.
next_key_derives_first(self, rejected) ==
    [self |-> [self EXCEPT !.primary_key_index = self.primary_key_index + 1],
     result |-> derive_key(self, self.primary_key_index, rejected)]

\* Mutant: the key after the counter is derived, the counter stays.
next_key_stays(self, rejected) ==
    [self |-> self,
     result |-> derive_key(self, self.primary_key_index + 1, rejected)]

\* Mutant: the counter advances by two.
next_key_skips(self, rejected) ==
    LET advanced == [self EXCEPT !.primary_key_index = self.primary_key_index + 2]
    IN  [self |-> advanced,
         result |-> derive_key(advanced, advanced.primary_key_index, rejected)]

\* Mutant: the counter is restored when derive_key fails.
next_key_rolls_back(self, rejected) ==
    LET advanced == [self EXCEPT !.primary_key_index = self.primary_key_index + 1]
        result == derive_key(advanced, advanced.primary_key_index, rejected)
    IN  [self |-> IF IsOk(result) THEN advanced ELSE self, result |-> result]

\* next_key: the manager after the call, and what the call returns.
next_key(self, rejected) ==
    LET advanced == [self EXCEPT !.primary_key_index = self.primary_key_index + 1]
    IN  [self |-> advanced,
         result |-> derive_key(advanced, advanced.primary_key_index, rejected)]

-----------------------------------------------------------------------------
(* The backup file: serde_json's text of the three fields, as a sequence   *)
(* of characters (a field name counts as one character).                   *)

Quote == "\""
Backslash == "\\"

\* The first n characters of a string, escaped.
RECURSIVE json_escape(_, _)
json_escape(str, n) ==
    IF n = 0 THEN <<>>
    ELSE json_escape(str, n - 1)
         \o (IF str[n] \in {Quote, Backslash} THEN <<Backslash, str[n]>> ELSE <<str[n]>>)

json_string(str) == <<Quote>> \o json_escape(str, Len(str)) \o <<Quote>>

json_field(name) == <<Quote, name, Quote, ":">>

\* serde_json::to_string(&self)
to_json(self) ==
    <<"{">> \o json_field("master_key") \o json_string(to_hex(self.master_key))
    \o <<",">> \o json_field("branch_seed") \o json_string(self.branch_seed)
    \o <<",">> \o json_field("primary_key_index") \o to_string(self.primary_key_index)
    \o <<"}">>

\* The parser's position in the text: ok, the value read, the next index.
Parsed(value, next) == [ok |-> TRUE, value |-> value, next |-> next]
ParseError == [ok |-> FALSE]

parse_literal(text, pos, literal) ==
    IF /\ pos + Len(literal) - 1 <= Len(text)
       /\ SubSeq(text, pos, pos + Len(literal) - 1) = literal
    THEN Parsed(literal, pos + Len(literal))
    ELSE ParseError

\* The characters of a string after its opening quote, up to the closing
\* one; at is the parser's position: the characters read, the next index.
RECURSIVE parse_string_tail(_, _)
parse_string_tail(text, at) ==
    IF at.next > Len(text) THEN ParseError
    ELSE IF text[at.next] = Quote THEN Parsed(at.value, at.next + 1)
    ELSE IF text[at.next] = Backslash
         THEN IF at.next + 1 <= Len(text) /\ text[at.next + 1] \in {Quote, Backslash}
              THEN parse_string_tail(text,
                      Parsed(Append(at.value, text[at.next + 1]), at.next + 2))
              ELSE ParseError
    ELSE parse_string_tail(text, Parsed(Append(at.value, text[at.next]), at.next + 1))

parse_string(text, pos) ==
    IF pos <= Len(text) /\ text[pos] = Quote
    THEN parse_string_tail(text, Parsed(<<>>, pos + 1))
    ELSE ParseError

IsDecDigit(c) == \E d \in 1..Len(DecDigits) : DecDigits[d] = c
DecValue(c) == (CHOOSE d \in 1..Len(DecDigits) : DecDigits[d] = c) - 1
IsHexDigit(c) == \E d \in 1..Len(HexDigits) : HexDigits[d] = c
HexValue(c) == (CHOOSE d \in 1..Len(HexDigits) : HexDigits[d] = c) - 1

RECURSIVE parse_number_tail(_, _, _)
parse_number_tail(text, pos, value) ==
    IF pos <= Len(text) /\ IsDecDigit(text[pos])
    THEN parse_number_tail(text, pos + 1, 10 * value + DecValue(text[pos]))
    ELSE Parsed(value, pos)

\* An unsigned number: at least one digit, no leading zero before another.
parse_number(text, pos) ==
    IF pos > Len(text) \/ ~IsDecDigit(text[pos]) THEN ParseError
    ELSE IF text[pos] = "0" /\ pos + 1 <= Len(text) /\ IsDecDigit(text[pos + 1])
         THEN ParseError
    ELSE parse_number_tail(text, pos, 0)

\* SecretKey's deserializer: KeyLen bytes from 2 * KeyLen hex digits.
from_hex(hex) ==
    IF Len(hex) # 2 * KeyLen \/ \E i \in 1..Len(hex) : ~IsHexDigit(hex[i])
    THEN ParseError
    ELSE Parsed([i \in 1..KeyLen |->
                    16 * HexValue(hex[2 * i - 1]) + HexValue(hex[2 * i])], 0)

\* serde_json::from_str::<KeyManager>
from_json(text) ==
    LET open == parse_literal(text, 1, <<"{">> \o json_field("master_key"))
        master == IF open.ok THEN parse_string(text, open.next) ELSE ParseError
        key == IF master.ok THEN from_hex(master.value) ELSE ParseError
        sep1 == IF key.ok
                THEN parse_literal(text, master.next, <<",">> \o json_field("branch_seed"))
                ELSE ParseError
        seed == IF sep1.ok THEN parse_string(text, sep1.next) ELSE ParseError
        sep2 == IF seed.ok
                THEN parse_literal(text, seed.next,
                                   <<",">> \o json_field("primary_key_index"))
                ELSE ParseError
        index == IF sep2.ok THEN parse_number(text, sep2.next) ELSE ParseError
        close == IF index.ok THEN parse_literal(text, index.next, <<"}">>) ELSE ParseError
    IN  IF close.ok /\ close.next = Len(text) + 1
        THEN Ok([master_key |-> key.value, branch_seed |-> seed.value,
                 primary_key_index |-> index.value])
        ELSE Err("Deserialize")

NoFile == [kind |-> "NoFile"]
FileOf(content) == [kind |-> "File", content |-> content]

\* Mutant: write instead of write_all, a short write goes unnoticed.
to_file_short_write(self, old_file, io) ==
    LET json_data == to_json(self)
    IN  CASE io = "create_fails" -> [file |-> old_file, result |-> Err("io")]
          [] io = "write_fails" ->
                [file |-> FileOf(SubSeq(json_data, 1, Len(json_data) \div 2)),
                 result |-> Ok(<<>>)]
          [] io = "ok" -> [file |-> FileOf(json_data), result |-> Ok(<<>>)]

\* File::create, then write_all of the JSON text.  io is what the file
\* system does: "ok", "create_fails", or "write_fails" after half the text.
to_file(self, old_file, io) ==
    LET json_data == to_json(self)
    IN  CASE io = "create_fails" -> [file |-> old_file, result |-> Err("io")]
          [] io = "write_fails" ->
                [file |-> FileOf(SubSeq(json_data, 1, Len(json_data) \div 2)),
                 result |-> Err("io")]
          [] io = "ok" -> [file |-> FileOf(json_data), result |-> Ok(<<>>)]

\* File::open, read_to_string, serde_json::from_str.
from_file(the_file, io) ==
    IF the_file = NoFile \/ io = "open_fails" THEN Err("FileOpen")
    ELSE IF io = "read_fails" THEN Err("FileRead")
    ELSE from_json(the_file.content)

-----------------------------------------------------------------------------
(* The key manager's callers.  Init is the state after KeyManager::new or  *)
(* KeyManager::from; the actions are the calls on that manager.            *)

MaxCalls == 3

\* Two master keys whose bytes differ only in order.
KeyOf(first, second) ==
    [i \in 1..KeyLen |-> IF i = 1 THEN first ELSE IF i = 2 THEN second ELSE 0]

MasterKeys == {KeyOf(1, 17), KeyOf(17, 1)}

BranchSeeds == {<<>>, <<"a", Quote, Backslash>>}

StartIndices == {0, 9}

DeriveIndices == {0, 1, 2, 10}

\* The indices whose digest is no valid scalar: none, or 2 and 10.
RejectedIndices == {{}, {2, 10}}

\* The MnemonicManager's variables while another part runs.
IdleManager ==
    /\ mm = MnemonicManager_new
    /\ mmMade = mm
    /\ lastFind = [op |-> "none"]

IdleCodec ==
    /\ input = [kind |-> "none"]
    /\ words = NoWords
    /\ out = NoOutput

Init ==
    /\ km \in [master_key : MasterKeys, branch_seed : BranchSeeds,
               primary_key_index : StartIndices]
    /\ made = km
    /\ nextCalls = 0
    /\ nextOk = 0
    /\ returned = {}
    /\ file = NoFile
    /\ \E rejected \in RejectedIndices :
          invalid = {Concatenated(k, i) : k \in MasterKeys, i \in rejected}
    /\ res = [op |-> "none"]
    /\ seen = [op |-> "none"]
    /\ IdleCodec
    /\ IdleManager

DeriveKey ==
    /\ \E key_index \in DeriveIndices :
          /\ res' = [op |-> "derive_key", index |-> key_index,
                     result |-> derive_key(km, key_index, invalid)]
          /\ seen' \in IF seen.op = "none" /\ nextCalls = 0
                        THEN {seen, [op |-> "derive_key", index |-> key_index,
                                     result |-> res'.result]}
                        ELSE {seen}
    /\ UNCHANGED <<km, made, nextCalls, nextOk, returned, file, invalid, codecVars, mgrVars>>

NextKey ==
    /\ nextCalls < MaxCalls
    /\ LET call == next_key(km, invalid)
       IN  /\ km' = call.self
           /\ res' = [op |-> "next_key", result |-> call.result]
           /\ nextOk' = IF IsOk(call.result) THEN nextOk + 1 ELSE nextOk
           /\ returned' = IF IsOk(call.result)
                          THEN returned \cup {call.result.value.key_index}
                          ELSE returned
    /\ nextCalls' = nextCalls + 1
    /\ UNCHANGED <<made, file, invalid, seen, codecVars, mgrVars>>

ToFile ==
    /\ \E io \in {"ok", "create_fails", "write_fails"} :
          LET call == to_file(km, file, io)
          IN  /\ file' = call.file
              /\ res' = [op |-> "to_file", result |-> call.result]
    /\ UNCHANGED <<km, made, nextCalls, nextOk, returned, invalid, seen, codecVars, mgrVars>>

FromFile ==
    /\ \E io \in {"ok", "open_fails", "read_fails"} :
          res' = [op |-> "from_file", result |-> from_file(file, io)]
    /\ UNCHANGED <<km, made, nextCalls, nextOk, returned, file, invalid, seen, codecVars, mgrVars>>

Next == DeriveKey \/ NextKey \/ ToFile \/ FromFile

Spec == Init /\ [][Next]_vars

-----------------------------------------------------------------------------
(* Properties of the key manager, checked under Spec.                      *)

NextIndex == made.primary_key_index + nextCalls

\* C1 (as amended): the k-th call of next_key on a manager constructed with
\* primary_key_index s, when it succeeds, returns key_index s + k and the
\* key derive_key(s + k) returns on the same manager; k counts every call,
\* failed ones included.
C1_NextKeyReturnsIndexOfCall ==
    (res.op = "next_key" /\ IsOk(res.result)) =>
        /\ res.result.value.key_index = NextIndex
        /\ res.result = derive_key(km, NextIndex, invalid)

\* Two calls on a fresh manager returned the keys at indices 1 and 2.
C1_Witness ==
    /\ made.primary_key_index = 0
    /\ nextCalls = 2
    /\ nextOk = 2
    /\ res.op = "next_key"
    /\ IsOk(res.result)
    /\ res.result.value.key_index = 2

\* C1 (as stated): the k-th SUCCESSFUL call of next_key returns key_index
\* s + k and the key of derive_key(s + k).
C1_KthSuccessfulCall ==
    (res.op = "next_key" /\ IsOk(res.result)) =>
        /\ res.result.value.key_index = made.primary_key_index + nextOk
        /\ res.result = derive_key(km, made.primary_key_index + nextOk, invalid)

\* C2: derive_key(i) returns key_index i and the same result as the
\* derive_key(i) made on the manager as constructed, whatever calls
\* happened in between, and a derive_key call leaves the manager's fields
\* unchanged.
C2_DeriveKeyDeterministic ==
    /\ [](res.op = "derive_key" =>
            /\ IsOk(res.result) => res.result.value.key_index = res.index
            /\ (seen.op = "derive_key" /\ seen.index = res.index) =>
                    seen.result = res.result)
    /\ [][res'.op = "derive_key" => km' = km]_vars

\* derive_key(i) succeeded before and after a next_key call.
C2_Witness ==
    /\ res.op = "derive_key"
    /\ seen.op = "derive_key"
    /\ seen.index = res.index
    /\ nextCalls > 0
    /\ IsOk(res.result)

\* C3: primary_key_index never decreases; a next_key call raises it by
\* exactly 1 and leaves master_key and branch_seed alone; derive_key,
\* to_file and from_file leave the whole manager unchanged.
C3_IndexAdvancesOnlyInNextKey ==
    [][ /\ km'.primary_key_index >= km.primary_key_index
        /\ res'.op = "next_key" =>
              km' = [km EXCEPT !.primary_key_index = km.primary_key_index + 1]
        /\ res'.op \in {"derive_key", "to_file", "from_file"} => km' = km ]_vars

\* The counter has advanced twice and other operations have run since.
C3_Witness ==
    /\ km.primary_key_index = made.primary_key_index + 2
    /\ km.master_key = made.master_key
    /\ km.branch_seed = made.branch_seed
    /\ res.op = "to_file"

\* C4: a failing derive_key, to_file or from_file leaves the manager
\* unchanged; a failing next_key has advanced primary_key_index by 1 and
\* changed nothing else, and every next_key call uses the index after the
\* one the previous call used, failed or not.
C4_FailureLeavesManager ==
    [][ /\ (res'.op \in {"derive_key", "to_file", "from_file"} /\ ~IsOk(res'.result))
              => km' = km
        /\ (res'.op = "next_key" /\ ~IsOk(res'.result))
              => km' = [km EXCEPT !.primary_key_index = km.primary_key_index + 1]
        /\ (res'.op = "next_key" /\ IsOk(res'.result))
              => res'.result.value.key_index = km.primary_key_index + 1 ]_vars

\* A next_key call failed and a later one succeeded with a later index.
C4_Witness ==
    /\ res.op = "next_key"
    /\ IsOk(res.result)
    /\ nextOk < nextCalls
    /\ res.result.value.key_index = NextIndex

\* C5: from_file right after a successful to_file of manager m, when the
\* file can be opened and read, returns a manager equal to m.
C5_PersistRestoreRoundTrip ==
    [][ ( /\ res.op = "to_file" /\ IsOk(res.result)
          /\ res'.op = "from_file"
          /\ ~IsErr(res'.result, "FileOpen")
          /\ ~IsErr(res'.result, "FileRead") )
        => res'.result = Ok(km) ]_vars

\* A manager with a branch seed that needs escaping and a two-digit index
\* was restored after next_key calls.
C5_Witness ==
    /\ res.op = "from_file"
    /\ res.result = Ok(km)
    /\ km.branch_seed # <<>>
    /\ km.primary_key_index >= 10
    /\ nextCalls > 0

\* C8: derive_key(i) and derive_key(j) return different keys for i # j,
\* and the hashed string differs from the string of every other
\* (master_key, index) pair.
C8_DistinctIndicesDistinctKeys ==
    /\ ( /\ res.op = "derive_key" /\ seen.op = "derive_key"
         /\ seen.index # res.index
         /\ IsOk(seen.result) /\ IsOk(res.result) )
       => seen.result.value.k # res.result.value.k
    /\ res.op = "derive_key" =>
          \A other \in MasterKeys, j \in DeriveIndices :
              <<other, j>> # <<km.master_key, res.index>> =>
                  Concatenated(other, j) # Concatenated(km.master_key, res.index)

\* Two derive_key calls with different indices both succeeded.
C8_Witness ==
    /\ res.op = "derive_key" /\ seen.op = "derive_key"
    /\ seen.index # res.index
    /\ IsOk(seen.result) /\ IsOk(res.result)

-----------------------------------------------------------------------------
(* The codec's callers: inputs are drawn in InitCodec, the actions apply   *)
(* the codec's functions to them.                                          *)

MaxBytes == 33
MaxWords == 3
MaxBits == 20

\* Byte sequences: every length up to MaxBytes, filled by a few patterns
\* (all zero bits, all one bits, mixed, counting up from 0).
BytePatterns == {<<0, 0>>, <<255, 0>>, <<165, 59>>, <<0, 1>>}

ByteSeq(n, pattern) == [i \in 1..n |-> (pattern[1] + pattern[2] * (i - 1)) % 256]

ByteSeqs == {ByteSeq(n, pattern) : n \in 0..MaxBytes, pattern \in BytePatterns}

\* Words a caller may supply: words of no list (0, 30000), words of one
\* list only (5, 8), words of two lists (13, 14), the last Spanish word.
SampleWords == {0, 5, 8, 13, 14, 24576, 30000}

RECURSIVE SeqsUpTo(_, _)
SeqsUpTo(S, n) ==
    IF n = 0 THEN {<<>>}
    ELSE LET shorter == SeqsUpTo(S, n - 1)
         IN  shorter \cup {Append(s, x) : s \in {t \in shorter : Len(t) = n - 1}, x \in S}

WordSeqs == SeqsUpTo(SampleWords, MaxWords)

\* Bit sequences: every length up to MaxBits, filled by a few patterns.
BitPatterns == {"zeros", "ones", "mixed"}

BitSeq(n, pattern) ==
    [i \in 1..n |->
        CASE pattern = "zeros" -> FALSE
          [] pattern = "ones"  -> TRUE
          [] pattern = "mixed" -> (i * i + i \div 3) % 3 = 1
          [] pattern = "top"   -> i = 1
          [] pattern = "low"   -> i = n]

\* Sequences longer than a usize, with the one bits where the value still
\* has a numeral here: none, the last bit, or the first bit (which is above
\* the usize).
LongBitSeqs ==
    {BitSeq(n, pattern) : n \in {64, 65, 72}, pattern \in {"zeros", "low"}}
    \cup {BitSeq(n, "top") : n \in {65, 72}}

BitSeqs ==
    {BitSeq(n, pattern) : n \in 0..MaxBits, pattern \in BitPatterns} \cup LongBitSeqs

\* Values and widths for uint_to_bits, the value below 2^width.
UintInputs ==
    {[kind |-> "uint", value |-> v, width |-> w] :
        w \in 0..12, v \in {0, 1, 5, 682, 1365, 2047, 4095}}

\* Lengths of byte sequences, for the operations followed by length alone:
\* short ones and ones of 2 MiB and more, too long to enumerate.
ByteCounts == (0..MaxBytes) \cup (2097150..2097160) \cup {3000000, 16777216}

CodecInputs ==
    {[kind |-> "bytes", bytes |-> b, language |-> l] : b \in ByteSeqs, l \in Languages}
    \cup {[kind |-> "words", seq |-> s] : s \in WordSeqs}
    \cup {[kind |-> "length", len |-> n] : n \in ByteCounts}
    \cup {[kind |-> "bits", bits |-> b] : b \in BitSeqs}
    \cup {i \in UintInputs : i.value < pow2(i.width)}

\* The key manager's variables while the codec runs.
IdleKeyManager ==
    /\ km = [master_key |-> <<>>, branch_seed |-> <<>>, primary_key_index |-> 0]
    /\ made = km
    /\ nextCalls = 0
    /\ nextOk = 0
    /\ returned = {}
    /\ file = NoFile
    /\ invalid = {}
    /\ res = [op |-> "none"]
    /\ seen = [op |-> "none"]

InitCodec ==
    /\ input \in CodecInputs
    /\ words = NoWords
    /\ out = NoOutput
    /\ IdleKeyManager
    /\ IdleManager

\* The mnemonic sequence in hand: the caller's, or the one from_bytes made.
HasSequence == input.kind = "words" \/ IsOk(words)
Sequence == IF input.kind = "words" THEN input.seq ELSE words.value

FromBytes ==
    /\ input.kind = "bytes"
    /\ words = NoWords
    /\ words' = from_bytes(input.bytes, input.language)
    /\ UNCHANGED <<input, out, kmVars, mgrVars>>

ToBytesWithLanguage ==
    /\ HasSequence
    /\ out = NoOutput
    /\ \E language \in Languages :
          out' = [op |-> "to_bytes_with_language", language |-> language,
                  result |-> to_bytes_with_language(Sequence, language)]
    /\ UNCHANGED <<input, words, kmVars, mgrVars>>

ToBytes ==
    /\ HasSequence
    /\ out = NoOutput
    /\ out' = [op |-> "to_bytes", result |-> to_bytes(Sequence)]
    /\ UNCHANGED <<input, words, kmVars, mgrVars>>

\* from_bytes and to_bytes_with_language followed by the lengths of their
\* arguments and results.
FromBytesLen ==
    /\ input.kind = "length"
    /\ words = NoWords
    /\ words' = [kind |-> "Len", value |-> from_bytes_len(input.len)]
    /\ UNCHANGED <<input, out, kmVars, mgrVars>>

ToBytesWithLanguageLen ==
    /\ words.kind = "Len"
    /\ out = NoOutput
    /\ out' = [op |-> "to_bytes_with_language_len",
               result |-> to_bytes_with_language_len(words.value)]
    /\ UNCHANGED <<input, words, kmVars, mgrVars>>

\* The bit sequence in hand: the caller's, or the one bytes_to_bits made.
HasBits == input.kind = "bits" \/ words.kind = "Bits"
Bits == IF input.kind = "bits" THEN input.bits ELSE words.value

BytesToBits ==
    /\ input.kind = "bytes"
    /\ words = NoWords
    /\ words' = [kind |-> "Bits", value |-> bytes_to_bits(input.bytes)]
    /\ UNCHANGED <<input, out, kmVars, mgrVars>>

UintToBits ==
    /\ input.kind = "uint"
    /\ words = NoWords
    /\ words' = [kind |-> "Bits", value |-> uint_to_bits(input.value, input.width)]
    /\ UNCHANGED <<input, out, kmVars, mgrVars>>

\* bits_to_uint in a build with or without overflow checks, on the caller's
\* bits or those uint_to_bits made; Ok(v) is the returned value v.
BitsToUint ==
    /\ HasBits
    /\ input.kind \in {"bits", "uint"}
    /\ out = NoOutput
    /\ \E overflow_checks \in BOOLEAN :
          out' = [op |-> "bits_to_uint", overflow_checks |-> overflow_checks,
                  result |-> IF bits_to_uint_aborts(Bits, overflow_checks)
                             THEN Panic
                             ELSE Ok(bits_to_uint(Bits))]
    /\ UNCHANGED <<input, words, kmVars, mgrVars>>

BitsToBytes ==
    /\ HasBits
    /\ out = NoOutput
    /\ out' = [op |-> "bits_to_bytes", result |-> bits_to_bytes(Bits)]
    /\ UNCHANGED <<input, words, kmVars, mgrVars>>

\* MnemonicLanguage::from on a word of the caller's sequence.
DetectLanguage ==
    /\ input.kind = "words"
    /\ out = NoOutput
    /\ \E i \in 1..Len(input.seq) :
          out' = [op |-> "MnemonicLanguage_from", word |-> input.seq[i],
                  result |-> MnemonicLanguage_from(input.seq[i])]
    /\ UNCHANGED <<input, words, kmVars, mgrVars>>

NextCodec ==
    \/ FromBytes
    \/ ToBytesWithLanguage
    \/ ToBytes
    \/ DetectLanguage
    \/ FromBytesLen
    \/ ToBytesWithLanguageLen
    \/ BytesToBits
    \/ BitsToBytes
    \/ UintToBits
    \/ BitsToUint

SpecCodec == InitCodec /\ [][NextCodec]_vars

-----------------------------------------------------------------------------
(* Properties of the mnemonic codec, checked under SpecCodec.              *)

\* Membership and index of a word in a language's list, from the list's
\* definition (no search).
IndexInList(word, language) == (word - First(language)) \div Stride(language)

InWordlist(word, language) ==
    /\ word >= First(language)
    /\ IndexInList(word, language) < WordlistLen
    /\ WordAt(language, IndexInList(word, language)) = word

AllInWordlist(seq, language) == \A i \in 1..Len(seq) : InWordlist(seq[i], language)

\* Bit j (1-based) of the concatenation of the words' 11-bit indices, most
\* significant bit first, as 0 or 1.
IndexBit(seq, language, j) ==
    LET index == IndexInList(seq[(j - 1) \div 11 + 1], language)
    IN  (index \div 2 ^ (10 - ((j - 1) % 11))) % 2

\* The bytes of the complete 8-bit groups of that concatenation.
IndexBytes(seq, language) ==
    [k \in 1..(11 * Len(seq)) \div 8 |->
        LET bit(q) == IndexBit(seq, language, 8 * (k - 1) + q)
        IN  128 * bit(1) + 64 * bit(2) + 32 * bit(3) + 16 * bit(4)
            + 8 * bit(5) + 4 * bit(6) + 2 * bit(7) + bit(8)]

\* The number of zero bits from_bytes pads onto n bytes.
PaddingBits(n) == (11 - ((8 * n) % 11)) % 11

\* C6: a 32-byte secret key encoded to English words and decoded with
\* to_bytes gives back exactly the 32 bytes.
C6_SecretKeyRoundTrip ==
    ( /\ input.kind = "bytes" /\ Len(input.bytes) = KeyLen
      /\ input.language = "English"
      /\ out.op = "to_bytes" )
    => out.result = Ok(input.bytes)

\* C7: to_bytes_with_language(from_bytes(b, L), L) = b whenever the padding
\* is a multiple of 8 bits, and for every b of 16 bytes.
C7_RoundTripWhenPaddingWholeBytes ==
    ( /\ input.kind = "bytes"
      /\ out.op = "to_bytes_with_language" /\ out.language = input.language
      /\ (PaddingBits(Len(input.bytes)) % 8 = 0 \/ Len(input.bytes) = 16) )
    => out.result = Ok(input.bytes)

\* C9: to_bytes_with_language fails with WordNotFound exactly when a word
\* of the sequence is absent from the language's list, it then returns the
\* error alone, and otherwise it returns the bytes of the concatenated
\* 11-bit indices of the words.
C9_DecodeWithLanguage ==
    out.op = "to_bytes_with_language" =>
        /\ IsErr(out.result, "WordNotFound") <=> ~AllInWordlist(Sequence, out.language)
        /\ ~AllInWordlist(Sequence, out.language) => out.result = Err("WordNotFound")
        /\ AllInWordlist(Sequence, out.language) =>
              out.result = Ok(IndexBytes(Sequence, out.language))

\* The first word was in the list, a later one was not, and the call
\* failed.
C9_Witness ==
    /\ out.op = "to_bytes_with_language"
    /\ HasSequence
    /\ Len(Sequence) >= 2
    /\ InWordlist(Sequence[1], out.language)
    /\ ~AllInWordlist(Sequence, out.language)
    /\ out.result = Err("WordNotFound")

\* The first language, in detection order, whose list has the word.
Known(word) == \E language \in Languages : InWordlist(word, language)

Detected(word) ==
    MNEMONIC_LANGUAGES[
        CHOOSE i \in 1..Len(MNEMONIC_LANGUAGES) :
            /\ InWordlist(word, MNEMONIC_LANGUAGES[i])
            /\ \A j \in 1..(i - 1) : ~InWordlist(word, MNEMONIC_LANGUAGES[j])]

\* C10: to_bytes of a non-empty sequence fails with UnknownLanguage exactly
\* when the first word is in no list; otherwise every word is decoded with
\* the language detected from the first word: WordNotFound when a word is
\* absent from that language's list, else the bytes of the indices in it.
C10_AutoDetectFromFirstWord ==
    (out.op = "to_bytes" /\ Len(Sequence) > 0) =>
        /\ IsErr(out.result, "UnknownLanguage") <=> ~Known(Sequence[1])
        /\ Known(Sequence[1]) =>
              LET language == Detected(Sequence[1])
              IN  IF AllInWordlist(Sequence, language)
                  THEN out.result = Ok(IndexBytes(Sequence, language))
                  ELSE out.result = Err("WordNotFound")

\* The first word was detected, a later word is in another language's list
\* only, and the call failed with WordNotFound.
C10_Witness ==
    /\ out.op = "to_bytes"
    /\ HasSequence
    /\ Len(Sequence) >= 2
    /\ Known(Sequence[1])
    /\ \E i \in 2..Len(Sequence) :
          /\ ~InWordlist(Sequence[i], Detected(Sequence[1]))
          /\ Known(Sequence[i])
    /\ out.result = Err("WordNotFound")

\* The detection order, most spoken language first.
PriorityOrder ==
    <<"ChineseSimplified", "ChineseTraditional", "English", "French",
      "Italian", "Japanese", "Korean", "Spanish">>

PaddedBit(bytes, j) ==
    IF j <= 8 * Len(bytes)
    THEN (bytes[(j - 1) \div 8 + 1] \div 2 ^ (7 - ((j - 1) % 8))) % 2
    ELSE 0

\* The big-endian value of the k-th (1-based) group of 11 padded bits.
GroupValue(bytes, k) ==
    LET bit(q) == PaddedBit(bytes, 11 * (k - 1) + q)
    IN  1024 * bit(1) + 512 * bit(2) + 256 * bit(3) + 128 * bit(4)
        + 64 * bit(5) + 32 * bit(6) + 16 * bit(7) + 8 * bit(8)
        + 4 * bit(9) + 2 * bit(10) + bit(11)

\* ceil(8 * n / 11)
WordCount(n) == (8 * n + 10) \div 11

\* from_bytes returned the words at the values of the 11-bit groups of the
\* padded bits.
EncodesPaddedGroups ==
    (input.kind = "bytes" /\ words # NoWords) =>
        /\ IsOk(words)
        /\ Len(words.value) = WordCount(Len(input.bytes))
        /\ \A k \in 1..Len(words.value) :
              words.value[k] = WordAt(input.language, GroupValue(input.bytes, k))

\* C12: from_bytes(b, L) returns exactly ceil(8 * len(b) / 11) words, word
\* k being L's word at the big-endian value of the k-th group of 11 bits
\* of b padded with zero bits, and never IndexOutOfBounds.
C12_WordsOfPaddedGroups ==
    /\ EncodesPaddedGroups
    /\ words.kind = "Len" => words.value = WordCount(input.len)

\* The byte of 8 bits, the first one most significant.
ByteOfBits(b1, b2, b3, b4, b5, b6, b7, b8) ==
    LET v(b, weight) == IF b THEN weight ELSE 0
    IN  v(b1, 128) + v(b2, 64) + v(b3, 32) + v(b4, 16)
        + v(b5, 8) + v(b6, 4) + v(b7, 2) + v(b8, 1)

\* C13: bytes_to_bits(b) has 8 * len(b) bits, each byte most significant
\* bit first; bits_to_bytes(bits) has floor(len(bits) / 8) bytes, those of
\* the leading complete groups of 8 bits; bits_to_bytes(bytes_to_bits(b))
\* is b.
C13_BitsAndBytes ==
    /\ (input.kind = "bytes" /\ words.kind = "Bits") =>
          /\ Len(words.value) = 8 * Len(input.bytes)
          /\ \A j \in 1..Len(words.value) :
                words.value[j] = (PaddedBit(input.bytes, j) = 1)
    /\ out.op = "bits_to_bytes" =>
          /\ Len(out.result) = Len(Bits) \div 8
          /\ \A k \in 1..Len(out.result) :
                out.result[k] =
                    ByteOfBits(Bits[8 * k - 7], Bits[8 * k - 6], Bits[8 * k - 5],
                               Bits[8 * k - 4], Bits[8 * k - 3], Bits[8 * k - 2],
                               Bits[8 * k - 1], Bits[8 * k])
          /\ input.kind = "bytes" => out.result = input.bytes

\* Trailing bits were dropped: bits_to_bytes ran on a sequence whose length
\* is no multiple of 8 and returned at least one byte.
C13_Witness ==
    /\ out.op = "bits_to_bytes"
    /\ Len(Bits) % 8 # 0
    /\ Len(out.result) = Len(Bits) \div 8
    /\ Len(out.result) > 0

-----------------------------------------------------------------------------
(* Further properties of the key manager, checked under Spec.              *)

\* The manager with another branch seed.
WithBranchSeed(self, seed) == [self EXCEPT !.branch_seed = seed]

C18_NextKeyAboveStart ==
    /\ \A key_index \in returned : key_index > made.primary_key_index
    /\ Cardinality(returned) = nextOk
    /\ (res.op = "next_key" /\ IsOk(res.result)) =>
          res.result.value.key_index \in returned

\* Three calls on a manager constructed with index 9 returned three
\* different indices.
C18_Witness ==
    /\ made.primary_key_index = 9
    /\ nextOk = 3
    /\ Cardinality(returned) = 3

\* Decoding what from_bytes encoded, in the same language, returned the
\* bytes followed by one zero byte per 8 bits of padding.
DecodesWithPaddingBytes ==
    ( /\ input.kind = "bytes"
      /\ out.op = "to_bytes_with_language" /\ out.language = input.language )
    => out.result =
          Ok(input.bytes \o [i \in 1..(PaddingBits(Len(input.bytes)) \div 8) |-> 0])

\* C15: to_bytes_with_language(from_bytes(b, L), L) is b followed by
\* floor(p / 8) zero bytes, p = (11 - (8 * len(b)) mod 11) mod 11.
C15_RoundTripAppendsPaddingBytes ==
    /\ DecodesWithPaddingBytes
    /\ out.op = "to_bytes_with_language_len" =>
          out.result = input.len + PaddingBits(input.len) \div 8

\* The languages tried before a language.
Before(language) ==
    {PriorityOrder[j] : j \in {i \in 1..Len(PriorityOrder) :
                                 \E k \in (i + 1)..Len(PriorityOrder) :
                                     PriorityOrder[k] = language}}

\* The first word of the mnemonic is in the list of a language tried
\* before the encoding language.
FirstWordOfEarlierLanguage ==
    \E language \in Before(input.language) : InWordlist(words.value[1], language)

\* C16 (as amended): for a non-empty b, to_bytes(from_bytes(b, L)) succeeds
\* and equals to_bytes_with_language(from_bytes(b, L), L) whenever the first
\* word of the mnemonic is in no list of a language tried before L.
C16_AutoDetectAgreesUnlessShadowed ==
    ( /\ input.kind = "bytes" /\ Len(input.bytes) > 0
      /\ out.op = "to_bytes"
      /\ ~FirstWordOfEarlierLanguage )
    => /\ IsOk(out.result)
       /\ out.result = to_bytes_with_language(words.value, input.language)

\* A mnemonic of several French words, the first in no earlier list, was
\* decoded.
C16_Witness ==
    /\ input.kind = "bytes"
    /\ input.language = "French"
    /\ out.op = "to_bytes"
    /\ Len(words.value) >= 2
    /\ ~FirstWordOfEarlierLanguage
    /\ out.result = to_bytes_with_language(words.value, "French")
    /\ IsOk(out.result)

\* C16 (as stated): the same also when the first word is in the list of a
\* language tried before L.
C16_AutoDetectAgrees ==
    ( /\ input.kind = "bytes" /\ Len(input.bytes) > 0
      /\ out.op = "to_bytes" )
    => /\ IsOk(out.result)
       /\ out.result = to_bytes_with_language(words.value, input.language)

\* C17: to_bytes returns bytes or a MnemonicError for every word sequence,
\* the empty one included; it never aborts.
C17_ToBytesTotal ==
    out.op = "to_bytes" => out.result # Panic

\* The big-endian value of a bit sequence.
RECURSIVE BigEndianValue(_)
BigEndianValue(bits) ==
    IF bits = <<>> THEN 0
    ELSE 2 * BigEndianValue(SubSeq(bits, 1, Len(bits) - 1))
         + (IF bits[Len(bits)] THEN 1 ELSE 0)

\* The value of the sequence is below 2^30.
IsSmallValue(bits) == \A i \in 1..Len(bits) : bits[i] => Len(bits) - i < 30

\* C19: bits_to_uint returns the big-endian value of a bit sequence of any
\* length, without overflow or abort, and bits_to_uint(uint_to_bits(v, w))
\* is v for v below 2^w.
C19_BitsToUintTotal ==
    out.op = "bits_to_uint" =>
        /\ out.result # Panic
        /\ IsSmallValue(Bits) => out.result = Ok(BigEndianValue(Bits))
        /\ (\E i \in 1..Len(Bits) : Bits[i]) => out.result # Ok(0)
        /\ input.kind = "uint" => out.result = Ok(input.value)

-----------------------------------------------------------------------------
(* The MnemonicManager's callers: a manager is constructed with new or     *)
(* from, then find is called with words of the caller's choice.            *)

\* Words of no list (0, 30000), of one list (3, 4, 5, 8, 11, 12, 24576), of
\* two lists at the same index (1, 2) and at different indices (13, 14).
ManagerWords == {0, 1, 2, 3, 4, 5, 8, 11, 12, 13, 14, 24576, 30000}

InitManager ==
    /\ mm \in {MnemonicManager_new}
              \cup {MnemonicManager_from(language) : language \in Languages}
    /\ mmMade = mm
    /\ lastFind = [op |-> "none"]
    /\ IdleKeyManager
    /\ IdleCodec

Find ==
    /\ \E word \in ManagerWords :
          LET call == find(mm, word)
          IN  /\ mm' = call.self
              /\ lastFind' = [op |-> "find", word |-> word, before |-> mm.language,
                           result |-> call.result]
    /\ UNCHANGED <<mmMade, kmVars, codecVars>>

NextManager == Find

SpecManager == InitManager /\ [][NextManager]_vars

-----------------------------------------------------------------------------
(* Properties of the MnemonicManager, checked under SpecManager.           *)

\* The result of looking a word up in one language's list.
LookupIn(word, language) ==
    IF InWordlist(word, language) THEN Ok(IndexInList(word, language))
    ELSE Err("WordNotFound")

\* C20: a find on a manager without a language returns UnknownLanguage and
\* leaves it without one when the word is in no list, and otherwise sets
\* the language to the detected one; a find on a manager with a language
\* leaves the language and looks the word up in that language alone.
C20_LanguageSetAtMostOnce ==
    lastFind.op = "find" =>
        IF lastFind.before.some
        THEN /\ mm.language = lastFind.before
             /\ lastFind.result = LookupIn(lastFind.word, lastFind.before.value)
        ELSE IF Known(lastFind.word)
        THEN /\ mm.language = Some(Detected(lastFind.word))
             /\ lastFind.result = LookupIn(lastFind.word, Detected(lastFind.word))
        ELSE /\ mm.language = None
             /\ lastFind.result = Err("UnknownLanguage")

\* A manager made without a language had it set by an earlier find, and a
\* later find of a word of another language returned WordNotFound.
C20_Witness ==
    /\ ~mmMade.language.some
    /\ lastFind.op = "find"
    /\ lastFind.before.some
    /\ mm.language = lastFind.before
    /\ Known(lastFind.word)
    /\ lastFind.result = Err("WordNotFound")

=============================================================================
